---- MODULE Spec2Model ----
(***************************************************************************)
(* Model of the TinyPay off-chain scripts:                                 *)
(*   scripts/complete_workflow.py    the hash chain, the contract          *)
(*                                   parameters and the verification step  *)
(*   scripts/hex_to_ascii_bytes.py   the hex/ASCII bridge                  *)
(*   scripts/move_compatible_hash.py the BCS-like encoder                  *)
(*                                                                         *)
(* One run of the model is one invocation of one script: Init chooses the  *)
(* script (prog) and its inputs, the actions are the steps of that script. *)
(* A Python str is a sequence of code points, a Python bytes a sequence of *)
(* values in 0..255, a Python int a sign and a magnitude in base 65536     *)
(* (least significant limb first, no leading zero limb), so that values up *)
(* to and beyond 2^64 are exact.                                           *)
(***************************************************************************)
EXTENDS Integers, Sequences, FiniteSets, TLC

VARIABLES prog, pc, error, error_line,
          initial_data, iterations, s, i, iteration_results,
          opt_hex, tail_hex, opt_ascii_bytes, tail_ascii_bytes,
          verification_hash, verification_ok,
          aptos_opt_format, aptos_tail_format,
          hex_string, ascii_bytes,
          data, bcs_bytes,
          action, address_given, step, cmd_failed, exit_status

vars == <<prog, pc, error, error_line,
          initial_data, iterations, s, i, iteration_results,
          opt_hex, tail_hex, opt_ascii_bytes, tail_ascii_bytes,
          verification_hash, verification_ok,
          aptos_opt_format, aptos_tail_format,
          hex_string, ascii_bytes,
          data, bcs_bytes,
          action, address_given, step, cmd_failed, exit_status>>

workflowVars == <<initial_data, iterations, s, i, iteration_results,
                  opt_hex, tail_hex, opt_ascii_bytes, tail_ascii_bytes,
                  verification_hash, verification_ok,
                  aptos_opt_format, aptos_tail_format>>
resultVars == <<aptos_opt_format, aptos_tail_format>>
bridgeVars == <<hex_string, ascii_bytes>>
encoderVars == <<data, bcs_bytes>>
orchVars == <<action, address_given, step, cmd_failed, exit_status>>

(***************************************************************************)
(* Bounds of the model.                                                    *)
(***************************************************************************)
MaxSeedLen == 2
MaxIterations == 3
MaxHexLen == 4
MaxLimbs == 5
MaxTextLen == 2
MaxBytesLen == 2
MaxItems == 2

(***************************************************************************)
(* Sequences.                                                              *)
(***************************************************************************)
SeqsUpTo(S, n) == UNION {[1..k -> S] : k \in 0..n}

RECURSIVE Flatten(_)
Flatten(ss) == IF ss = <<>> THEN <<>> ELSE Head(ss) \o Flatten(Tail(ss))

Drop(sq, n) == SubSeq(sq, n + 1, Len(sq))

(***************************************************************************)
(* Python str -> bytes conversions.  A conversion yields                   *)
(*   [err |-> "none", bytes |-> ...]  or  [err |-> <exception>, bytes |-> <<>>] *)
(***************************************************************************)
Ok(bs) == [err |-> "none", bytes |-> bs]
Raise(e) == [err |-> e, bytes |-> <<>>]

\* UTF-8 bytes of one code point (code points below 65536 only)
Utf8Char(c) ==
    IF c < 128 THEN <<c>>
    ELSE IF c < 2048 THEN <<192 + (c \div 64), 128 + (c % 64)>>
    ELSE <<224 + (c \div 4096), 128 + ((c \div 64) % 64), 128 + (c % 64)>>

IsSurrogate(c) == c >= 55296 /\ c <= 57343

\* str.encode() / str.encode('utf-8'): fails on a lone surrogate
encode_utf8(str) ==
    IF \E k \in 1..Len(str) : IsSurrogate(str[k])
    THEN Raise("UnicodeEncodeError")
    ELSE Ok(Flatten([k \in 1..Len(str) |-> Utf8Char(str[k])]))

\* str.encode('ascii'): fails on any code point above 127
encode_ascii(str) ==
    IF \E k \in 1..Len(str) : str[k] > 127
    THEN Raise("UnicodeEncodeError")
    ELSE Ok(str)

(***************************************************************************)
(* The hash primitive.  hashlib.sha256 is an external capability; it is    *)
(* modelled by a 16-bit polynomial hash whose hexdigest is 4 lowercase hex *)
(* characters (instead of 64).  Only determinism and the shape of the      *)
(* digest text are relied on.                                              *)
(***************************************************************************)
RECURSIVE HashFold(_, _)
HashFold(acc, bs) ==
    IF bs = <<>> THEN acc
    ELSE HashFold((acc * 33 + Head(bs)) % 65536, Tail(bs))

\* the raw digest bytes (big-endian), as hashlib's .digest()
sha256_digest(bs) ==
    LET h == HashFold(5381, bs) IN <<h \div 256, h % 256>>

HexDigit(d) == IF d < 10 THEN 48 + d ELSE 87 + d

\* bytes.hex(): two lowercase hex characters per byte
bytes_hex(bs) ==
    Flatten([k \in 1..Len(bs) |-> <<HexDigit(bs[k] \div 16), HexDigit(bs[k] % 16)>>])

HexVal(c) == IF c <= 57 THEN c - 48 ELSE c - 87

\* bytes.fromhex() of lowercase hex text of even length: the bytes the text denotes
bytes_fromhex(h) ==
    [k \in 1..(Len(h) \div 2) |-> 16 * HexVal(h[2 * k - 1]) + HexVal(h[2 * k])]

\* hashlib.sha256(bs).hexdigest()
sha256_hexdigest(bs) == bytes_hex(sha256_digest(bs))

(***************************************************************************)
(* scripts/hex_to_ascii_bytes.py                                           *)
(***************************************************************************)
\* str.startswith('0x')
StartsWith0x(str) == Len(str) >= 2 /\ str[1] = 48 /\ str[2] = 120

StripPrefixNever(str) == str
\* lines 24-26: remove one 0x prefix if present
StripPrefix(str) == IF StartsWith0x(str) THEN Drop(str, 2) ELSE str

\* lines 28-34: ord() of every character, in order
hex_to_ascii_bytes(str) ==
    LET rest == StripPrefix(str) IN [k \in 1..Len(rest) |-> rest[k]]

(***************************************************************************)
(* scripts/complete_workflow.py, complete_payment_workflow                 *)
(***************************************************************************)
\* line 37, s = h.encode("ascii"): the next hash input is the hex text as ASCII
ChainInputRaw(h) == bytes_fromhex(h)
ChainInput(h) == encode_ascii(h).bytes

\* line 30, "for i in range(iterations)": is there a further iteration
LoopContinuesInclusive(k, n) == k <= n
LoopContinues(k, n) == k < n

\* Python list indexing, 0-based, negative indices count from the end
PyIndex(lst, k) ==
    LET j == IF k < 0 THEN Len(lst) + k ELSE k IN
    IF j < 0 \/ j >= Len(lst)
    THEN [err |-> "IndexError", val |-> <<>>]
    ELSE [err |-> "none", val |-> lst[j + 1]]

\* lines 42-47: the one-time value and the tail commitment.  opt and tail are
\* assigned in this order; optSet / tailSet tell which assignments took place.
SelectParamsAlwaysChain(n, seed, results) ==
    LET o == PyIndex(results, -2)
        t == PyIndex(results, -1) IN
    IF o.err # "none"
    THEN [err |-> o.err, line |-> 43, optSet |-> FALSE, opt |-> <<>>, tailSet |-> FALSE, tail |-> <<>>]
    ELSE [err |-> "none", line |-> 0, optSet |-> TRUE, opt |-> o.val, tailSet |-> TRUE, tail |-> t.val]
SelectParams(n, seed, results) ==
    IF n > 1
    THEN LET o == PyIndex(results, -2)
             t == PyIndex(results, -1) IN
         IF o.err # "none"
         THEN [err |-> o.err, line |-> 43, optSet |-> FALSE, opt |-> <<>>, tailSet |-> FALSE, tail |-> <<>>]
         ELSE IF t.err # "none"
         THEN [err |-> t.err, line |-> 44, optSet |-> TRUE, opt |-> o.val, tailSet |-> FALSE, tail |-> <<>>]
         ELSE [err |-> "none", line |-> 0, optSet |-> TRUE, opt |-> o.val, tailSet |-> TRUE, tail |-> t.val]
    ELSE LET t == PyIndex(results, 0) IN
         IF t.err # "none"
         THEN [err |-> t.err, line |-> 47, optSet |-> TRUE, opt |-> seed, tailSet |-> FALSE, tail |-> <<>>]
         ELSE [err |-> "none", line |-> 0, optSet |-> TRUE, opt |-> seed, tailSet |-> TRUE, tail |-> t.val]

\* str(n) of a non-negative int: its decimal digits
RECURSIVE DecimalStr(_)
DecimalStr(n) ==
    IF n < 10 THEN <<48 + n>> ELSE DecimalStr(n \div 10) \o <<48 + (n % 10)>>

\* ','.join(map(str, bs))
RECURSIVE JoinDecimals(_)
JoinDecimals(bs) ==
    IF bs = <<>> THEN <<>>
    ELSE IF Len(bs) = 1 THEN DecimalStr(bs[1])
    ELSE DecimalStr(Head(bs)) \o <<44>> \o JoinDecimals(Tail(bs))

\* lines 61-62: f"u8:[{','.join(map(str, bs))}]"
AptosFormat(bs) == <<117, 56, 58, 91>> \o JoinDecimals(bs) \o <<93>>

\* lines 67-68: the verification step
VerifyUtf8(opt, tail) ==
    LET e == encode_utf8(opt) IN
    IF e.err # "none" THEN [err |-> e.err, hash |-> <<>>, ok |-> FALSE]
    ELSE [err |-> "none", hash |-> sha256_hexdigest(e.bytes),
          ok |-> (sha256_hexdigest(e.bytes) = tail)]
Verify(opt, tail) ==
    LET e == encode_ascii(opt) IN
    IF e.err # "none" THEN [err |-> e.err, hash |-> <<>>, ok |-> FALSE]
    ELSE [err |-> "none", hash |-> sha256_hexdigest(e.bytes),
          ok |-> (sha256_hexdigest(e.bytes) = tail)]

\* lines 27-28
WfStart ==
    /\ prog = "workflow" /\ pc = "start"
    /\ LET e == encode_utf8(initial_data) IN
         IF e.err # "none"
         THEN /\ error' = e.err /\ error_line' = 27 /\ pc' = "raised"
              /\ UNCHANGED <<s, iteration_results, i>>
         ELSE /\ s' = e.bytes
              /\ iteration_results' = <<>>
              /\ i' = 0
              /\ pc' = "loop"
              /\ UNCHANGED <<error, error_line>>
    /\ UNCHANGED <<prog, initial_data, iterations, opt_hex, tail_hex,
                   opt_ascii_bytes, tail_ascii_bytes, verification_hash,
                   verification_ok, bridgeVars, encoderVars, resultVars, orchVars>>

\* lines 30-37: one iteration of "for i in range(iterations)"
WfLoopStep ==
    /\ prog = "workflow" /\ pc = "loop"
    /\ LoopContinues(i, iterations)
    /\ LET h == sha256_hexdigest(s) IN
         /\ iteration_results' = Append(iteration_results, h)
         /\ s' = ChainInput(h)
    /\ i' = i + 1
    /\ UNCHANGED <<prog, pc, error, error_line, initial_data, iterations,
                   opt_hex, tail_hex,
                   opt_ascii_bytes, tail_ascii_bytes, verification_hash,
                   verification_ok, bridgeVars, encoderVars, resultVars, orchVars>>

\* lines 41-47: range(iterations) is exhausted; choose opt and tail
WfPrepareParams ==
    /\ prog = "workflow" /\ pc = "loop"
    /\ ~LoopContinues(i, iterations)
    /\ LET r == SelectParams(iterations, initial_data, iteration_results) IN
         /\ opt_hex' = IF r.optSet THEN r.opt ELSE opt_hex
         /\ tail_hex' = IF r.tailSet THEN r.tail ELSE tail_hex
         /\ error' = r.err
         /\ error_line' = r.line
         /\ pc' = IF r.err = "none" THEN "convert" ELSE "raised"
    /\ UNCHANGED <<prog, initial_data, iterations, s, i, iteration_results,
                   opt_ascii_bytes, tail_ascii_bytes, verification_hash,
                   verification_ok, bridgeVars, encoderVars, resultVars, orchVars>>

\* lines 49-63
WfConvert ==
    /\ prog = "workflow" /\ pc = "convert"
    /\ opt_ascii_bytes' = hex_to_ascii_bytes(opt_hex)
    /\ tail_ascii_bytes' = hex_to_ascii_bytes(tail_hex)
    /\ aptos_opt_format' = AptosFormat(hex_to_ascii_bytes(opt_hex))
    /\ aptos_tail_format' = AptosFormat(hex_to_ascii_bytes(tail_hex))
    /\ pc' = "verify"
    /\ UNCHANGED <<prog, error, error_line, initial_data, iterations, s, i,
                   iteration_results,
                   opt_hex, tail_hex, verification_hash, verification_ok,
                   bridgeVars, encoderVars, orchVars>>

\* lines 65-68 and the return of lines 87-88
WfVerify ==
    /\ prog = "workflow" /\ pc = "verify"
    /\ LET v == Verify(opt_hex, tail_hex) IN
         IF v.err # "none"
         THEN /\ error' = v.err /\ error_line' = 67 /\ pc' = "raised"
              /\ UNCHANGED <<verification_hash, verification_ok>>
         ELSE /\ verification_hash' = v.hash
              /\ verification_ok' = v.ok
              /\ pc' = "done"
              /\ UNCHANGED <<error, error_line>>
    /\ UNCHANGED <<prog, initial_data, iterations, s, i, iteration_results,
                   opt_hex, tail_hex, opt_ascii_bytes, tail_ascii_bytes,
                   bridgeVars, encoderVars, resultVars, orchVars>>

(***************************************************************************)
(* scripts/hex_to_ascii_bytes.py as a program: one call of the function    *)
(***************************************************************************)
BridgeCall ==
    /\ prog = "bridge" /\ pc = "start"
    /\ ascii_bytes' = hex_to_ascii_bytes(hex_string)
    /\ pc' = "done"
    /\ UNCHANGED <<prog, error, error_line, hex_string, workflowVars, encoderVars, orchVars>>

(***************************************************************************)
(* scripts/move_compatible_hash.py                                         *)
(*                                                                         *)
(* A Python value is a record                                              *)
(*   [tag, b, neg, limbs, s, keys, items]                                  *)
(* tag   : "bool", "int", "str", "bytes", "list", "dict", "float", "none"  *)
(* b     : the value of a bool                                             *)
(* neg, limbs : sign and magnitude of an int (base 65536, least            *)
(*         significant limb first, last limb not 0; zero is <<>>)          *)
(* s     : the code points of a str, the bytes of a bytes                  *)
(* items : the elements of a list, the values of a dict in insertion order *)
(* keys  : the keys of a dict (each a str), in insertion order             *)
(***************************************************************************)
Val(t, b, n, l, str, ks, its) ==
    [tag |-> t, b |-> b, neg |-> n, limbs |-> l, s |-> str, keys |-> ks, items |-> its]
VBool(b) == Val("bool", b, FALSE, <<>>, <<>>, <<>>, <<>>)
VInt(n, l) == Val("int", FALSE, n, l, <<>>, <<>>, <<>>)
VStr(str) == Val("str", FALSE, FALSE, <<>>, str, <<>>, <<>>)
VBytes(bs) == Val("bytes", FALSE, FALSE, <<>>, bs, <<>>, <<>>)
VList(its) == Val("list", FALSE, FALSE, <<>>, <<>>, <<>>, its)
VDict(ks, its) == Val("dict", FALSE, FALSE, <<>>, <<>>, ks, its)
VFloat == Val("float", FALSE, FALSE, <<>>, <<>>, <<>>, <<>>)
VNone == Val("none", FALSE, FALSE, <<>>, <<>>, <<>>, <<>>)

\* the limbs of a natural number below 2^31 (len() of a model-sized object)
NatLimbs(n) ==
    IF n = 0 THEN <<>>
    ELSE IF n < 65536 THEN <<n>>
    ELSE <<n % 65536, n \div 65536>>

\* limb k of a magnitude, 0 beyond its length
Limb(l, k) == IF k <= Len(l) THEN l[k] ELSE 0

\* int.to_bytes(8, 'little') of a non-negative int: OverflowError from 2^64 on
to_bytes_8_big(l) ==
    IF Len(l) > 4 THEN Raise("OverflowError")
    ELSE Ok([j \in 1..8 |->
               IF j % 2 = 0 THEN Limb(l, 5 - j \div 2) % 256
               ELSE Limb(l, 4 - j \div 2) \div 256])
to_bytes_8_little(l) ==
    IF Len(l) > 4 THEN Raise("OverflowError")
    ELSE Ok([j \in 1..8 |->
               IF j % 2 = 1 THEN Limb(l, (j + 1) \div 2) % 256
               ELSE Limb(l, j \div 2) \div 256])

NegativeMsg == "ValueError: BCS does not support negative integers"
UnsupportedMsg == "ValueError: Unsupported data type for BCS serialization"

\* lines 23-27: the int branch
EncodeIntIgnoreSign(n, l) == to_bytes_8_little(l)
EncodeInt(n, l) == IF n THEN Raise(NegativeMsg) ELSE to_bytes_8_little(l)

\* lines 28-32: the str branch
EncodeStrCharCount(str) ==
    LET u == encode_utf8(str) IN
    IF u.err # "none" THEN u
    ELSE Ok(to_bytes_8_little(NatLimbs(Len(str))).bytes \o u.bytes)
EncodeStr(str) ==
    LET u == encode_utf8(str) IN
    IF u.err # "none" THEN u
    ELSE Ok(to_bytes_8_little(NatLimbs(Len(u.bytes))).bytes \o u.bytes)

\* lines 33-36: the bytes branch
EncodeBytes(bs) == Ok(to_bytes_8_little(NatLimbs(Len(bs))).bytes \o bs)

\* "result += serialize_to_bcs_like(item)" over a sequence of outcomes: the
\* first exception in order propagates, else the bytes are concatenated
RECURSIVE Accumulate(_, _)
Accumulate(acc, rs) ==
    IF rs = <<>> THEN Ok(acc)
    ELSE IF Head(rs).err # "none" THEN Head(rs)
    ELSE Accumulate(acc \o Head(rs).bytes, Tail(rs))

\* Python's order on str: lexicographic by code point
RECURSIVE StrLess(_, _)
StrLess(a, b) ==
    IF b = <<>> THEN FALSE
    ELSE IF a = <<>> THEN TRUE
    ELSE IF Head(a) # Head(b) THEN Head(a) < Head(b)
    ELSE StrLess(Tail(a), Tail(b))

\* line 46, sorted(data.keys()): the positions of the keys in ascending order
RECURSIVE SortPositions(_, _)
SortPositions(ks, todo) ==
    IF todo = {} THEN <<>>
    ELSE LET m == CHOOSE k \in todo : \A j \in todo \ {k} : StrLess(ks[k], ks[j])
         IN <<m>> \o SortPositions(ks, todo \ {m})

KeyOrderInsertion(ks) == [k \in 1..Len(ks) |-> k]
KeyOrder(ks) == SortPositions(ks, 1..Len(ks))

\* lines 21-22: the bool branch, tested before the int branch
EncodeBoolAsInt(b) == to_bytes_8_little(IF b THEN <<1>> ELSE <<>>)
EncodeBool(b) == Ok(IF b THEN <<1>> ELSE <<0>>)

\* line 40, "for item in data": the elements in the order they are visited
Reverse(its) == [k \in 1..Len(its) |-> its[Len(its) + 1 - k]]
ItemsInOrder(its) == its

\* lines 49-50: any other type
EncodeOtherSkipped(v) == Ok(<<>>)
EncodeOther(v) == Raise(UnsupportedMsg)

\* lines 15-50
RECURSIVE serialize_to_bcs_like(_)
serialize_to_bcs_like(v) ==
    CASE v.tag = "bool" -> EncodeBool(v.b)
      [] v.tag = "int" -> EncodeInt(v.neg, v.limbs)
      [] v.tag = "str" -> EncodeStr(v.s)
      [] v.tag = "bytes" -> EncodeBytes(v.s)
      [] v.tag = "list" ->
           LET visited == ItemsInOrder(v.items) IN
           Accumulate(to_bytes_8_little(NatLimbs(Len(v.items))).bytes,
                      [k \in 1..Len(visited) |-> serialize_to_bcs_like(visited[k])])
      [] v.tag = "dict" ->
           LET order == KeyOrder(v.keys) IN
           Accumulate(<<>>,
                      [k \in 1..Len(order) |-> serialize_to_bcs_like(v.items[order[k]])])
      [] OTHER -> EncodeOther(v)

\* the line of serialize_to_bcs_like that raises a given exception
RaiseLine(e) ==
    CASE e = NegativeMsg -> 25
      [] e = UnsupportedMsg -> 50
      [] e = "OverflowError" -> 27
      [] e = "UnicodeEncodeError" -> 30
      [] OTHER -> 0

\* one call serialize_to_bcs_like(data)
EncSerialize ==
    /\ prog = "encoder" /\ pc = "start"
    /\ LET r == serialize_to_bcs_like(data) IN
         /\ bcs_bytes' = r.bytes
         /\ error' = r.err
         /\ error_line' = RaiseLine(r.err)
         /\ pc' = IF r.err = "none" THEN "done" ELSE "raised"
    /\ UNCHANGED <<prog, data, workflowVars, bridgeVars, orchVars>>

(***************************************************************************)
(* scripts/setup_usdc.py and scripts/usdc_demo.py                          *)
(*                                                                         *)
(* An external command ends in one of three ways: "ok" (exit status 0),    *)
(* "fail" (non-zero exit status) or "oserror" (it could not be started;    *)
(* subprocess.run raises an OSError such as FileNotFoundError).            *)
(* cmd_failed records that some invoked command did not end "ok".          *)
(* exit_status is -1 while the process runs.                               *)
(***************************************************************************)
Outcomes == {"ok", "fail", "oserror"}

\* the outcome of a step: exc - an exception left the step; success - the
\* step's return value; failed - some command it invoked did not end "ok"
StepResult(e, sc, f) == [exc |-> e, success |-> sc, failed |-> f]

\* run_command of both scripts (setup_usdc.py 17-28, usdc_demo.py 17-34):
\* check=True turns a non-zero exit into CalledProcessError, which is caught;
\* any other exception propagates
run_command(o) ==
    CASE o = "ok" -> StepResult(FALSE, TRUE, FALSE)
      [] o = "fail" -> StepResult(FALSE, FALSE, TRUE)
      [] OTHER -> StepResult(TRUE, FALSE, TRUE)

\* setup_usdc.py 98-114, check_usdc_balance
check_usdc_balance(addr, o1, o2) ==
    IF ~addr
    THEN LET r1 == run_command(o1) IN
         IF r1.exc \/ ~r1.success THEN r1
         ELSE run_command(o2)
    ELSE run_command(o1)

\* the steps of setup_complete_environment (setup_usdc.py 130-137), each a
\* method of lines 30-114 that returns the success of its command
SetupStepNames == <<"compile", "publish", "init", "add-support", "mint", "balance">>

setup_step(name, addr, o1, o2) ==
    IF name = "balance" THEN check_usdc_balance(addr, o1, o2) ELSE run_command(o1)

\* two results one after the other: the second command runs only if no
\* exception left the first
Then(r1, r2) == IF r1.exc THEN r1 ELSE StepResult(r2.exc, r2.success, r1.failed \/ r2.failed)

\* a step's return value replaced by v (the results of the commands are ignored)
Returning(r, v) == IF r.exc THEN r ELSE StepResult(FALSE, v, r.failed)

\* usdc_demo.py 116-149, the direct subprocess.run of demo_step_4 (no check=True)
\* and the early "return False"
demo_step_4(o1, o2, o3) ==
    CASE o1 = "oserror" -> StepResult(TRUE, FALSE, TRUE)
      [] o1 = "fail" -> StepResult(FALSE, FALSE, TRUE)
      [] OTHER -> Returning(Then(run_command(o2), run_command(o3)), TRUE)

\* usdc_demo.py 58-233, demo_step_1 .. demo_step_8; says_false: the output of
\* the second view of step 1 contains "false"
demo_step(k, o1, o2, o3, says_false) ==
    CASE k = 1 -> LET r == Then(run_command(o1), run_command(o2)) IN
                  Returning(r, ~(run_command(o2).success /\ says_false))
      [] k = 2 -> LET r == Then(run_command(o1), run_command(o2)) IN
                  Returning(r, run_command(o1).success /\ run_command(o2).success)
      [] k = 4 -> demo_step_4(o1, o2, o3)
      [] k \in {6} -> Returning(Then(run_command(o1), run_command(o2)), TRUE)
      [] k = 8 -> Returning(Then(Then(run_command(o1), run_command(o2)), run_command(o3)), TRUE)
      [] OTHER -> run_command(o1)

DemoSteps == 8

\* sys.exit(0 if success else 1) (setup_usdc.py 193, usdc_demo.py 299)
ExitCode(success) == IF success THEN 0 ELSE 1

\* setup_usdc.py 139-144: one iteration of the loop over the steps
SetupRunStep ==
    /\ prog = "setup" /\ pc = "start" /\ action = "setup"
    /\ step <= Len(SetupStepNames)
    /\ \E o1, o2 \in Outcomes :
         LET r == setup_step(SetupStepNames[step], FALSE, o1, o2) IN
         /\ cmd_failed' = (cmd_failed \/ r.failed)
         /\ IF r.exc
            THEN /\ error' = "OSError" /\ error_line' = 20
                 /\ exit_status' = 1 /\ pc' = "exited"
                 /\ UNCHANGED step
            ELSE IF ~r.success
            THEN /\ exit_status' = ExitCode(FALSE) /\ pc' = "exited"
                 /\ UNCHANGED <<step, error, error_line>>
            ELSE /\ step' = step + 1
                 /\ UNCHANGED <<pc, exit_status, error, error_line>>
    /\ UNCHANGED <<prog, action, address_given, workflowVars, bridgeVars, encoderVars>>

\* setup_usdc.py 146-153 and 193: all steps done
SetupComplete ==
    /\ prog = "setup" /\ pc = "start" /\ action = "setup"
    /\ step > Len(SetupStepNames)
    /\ exit_status' = ExitCode(TRUE)
    /\ pc' = "exited"
    /\ UNCHANGED <<prog, action, address_given, step, cmd_failed, error, error_line,
                   workflowVars, bridgeVars, encoderVars>>

\* setup_usdc.py 175-193: a single action other than "setup"
SetupSingleAction ==
    /\ prog = "setup" /\ pc = "start" /\ action # "setup"
    /\ \E o1, o2 \in Outcomes :
         LET r == IF action = "test" THEN run_command(o1)
                  ELSE setup_step(action, address_given, o1, o2) IN
         /\ cmd_failed' = (cmd_failed \/ r.failed)
         /\ IF r.exc
            THEN /\ error' = "OSError" /\ error_line' = 20 /\ exit_status' = 1
            ELSE /\ exit_status' = ExitCode(r.success)
                 /\ UNCHANGED <<error, error_line>>
         /\ pc' = "exited"
    /\ UNCHANGED <<prog, action, address_given, step, workflowVars, bridgeVars,
                   encoderVars>>

\* usdc_demo.py 261-276: one iteration of the loop of run_complete_demo; the
\* step's return value is only printed, an exception ends the demo
DemoRunStep ==
    /\ prog = "demo" /\ pc = "start"
    /\ step <= DemoSteps
    /\ \E o1, o2, o3 \in Outcomes, says_false \in BOOLEAN :
         LET r == demo_step(step, o1, o2, o3, says_false) IN
         /\ cmd_failed' = (cmd_failed \/ r.failed)
         /\ IF r.exc
            THEN /\ exit_status' = ExitCode(FALSE) /\ pc' = "exited"
                 /\ UNCHANGED step
            ELSE /\ step' = step + 1
                 /\ UNCHANGED <<pc, exit_status>>
    /\ UNCHANGED <<prog, action, address_given, error, error_line,
                   workflowVars, bridgeVars, encoderVars>>

\* usdc_demo.py 278-285 and 299: all steps done
DemoComplete ==
    /\ prog = "demo" /\ pc = "start"
    /\ step > DemoSteps
    /\ exit_status' = ExitCode(TRUE)
    /\ pc' = "exited"
    /\ UNCHANGED <<prog, action, address_given, step, cmd_failed, error, error_line,
                   workflowVars, bridgeVars, encoderVars>>

(***************************************************************************)
(* Inputs                                                                  *)
(***************************************************************************)
\* '0', 'x', 'a', e-acute (above 127), euro sign (above 255)
SeedChars == {48, 120, 97, 233, 8364}
Seeds == SeqsUpTo(SeedChars, MaxSeedLen)
IterationCounts == (-1)..MaxIterations

\* '0', 'x', 'X', 'g' (not a hex digit), e-acute
BridgeChars == {48, 120, 88, 103, 233}
HexStrings == SeqsUpTo(BridgeChars, MaxHexLen)

Idle ==
    /\ pc = "start" /\ error = "none" /\ error_line = 0
    /\ s = <<>> /\ i = 0 /\ iteration_results = <<>>
    /\ opt_hex = <<>> /\ tail_hex = <<>>
    /\ opt_ascii_bytes = <<>> /\ tail_ascii_bytes = <<>>
    /\ verification_hash = <<>> /\ verification_ok = FALSE
    /\ aptos_opt_format = <<>> /\ aptos_tail_format = <<>>
    /\ ascii_bytes = <<>>
    /\ bcs_bytes = <<>>
    /\ step = 1 /\ cmd_failed = FALSE /\ exit_status = -1

\* limbs of the sampled ints, ints with up to MaxLimbs limbs (2^64 has 5)
LimbSamples == {0, 1, 256, 65535}
Magnitudes == {l \in SeqsUpTo(LimbSamples, MaxLimbs) : l = <<>> \/ l[Len(l)] # 0}
Ints == {VInt(FALSE, l) : l \in Magnitudes} \cup {VInt(TRUE, l) : l \in Magnitudes \ {<<>>}}

\* 'a', e-acute (2 UTF-8 bytes), euro sign (3 UTF-8 bytes), a lone surrogate
TextChars == {97, 233, 8364, 55296}
Texts == {VStr(str) : str \in SeqsUpTo(TextChars, MaxTextLen)}
ByteSamples == {0, 97, 255}
ByteSeqs == {VBytes(bs) : bs \in SeqsUpTo(ByteSamples, MaxBytesLen)}

Leaves == {VBool(TRUE), VBool(FALSE), VFloat, VNone} \cup Ints \cup Texts \cup ByteSeqs

\* the values used as elements of lists and as values of dicts
NestedLeaves ==
    {VBool(TRUE), VBool(FALSE), VInt(FALSE, <<1>>), VInt(FALSE, <<256>>),
     VInt(TRUE, <<1>>), VStr(<<97>>), VStr(<<233>>), VBytes(<<255>>), VNone}
InnerContainers ==
    {VList(<<>>), VList(<<VInt(TRUE, <<1>>)>>), VList(<<VBool(FALSE), VInt(FALSE, <<1>>)>>),
     VDict(<<<<98>>, <<97>>>>, <<VInt(FALSE, <<0, 1>>), VInt(TRUE, <<1>>)>>)}
Elements == NestedLeaves \cup InnerContainers

\* dict keys "a", "b", "ab": a dict holds each key at most once
DictKeys == {<<97>>, <<98>>, <<97, 98>>}
KeySeqs == {ks \in SeqsUpTo(DictKeys, MaxItems) :
              \A j, k \in 1..Len(ks) : j # k => ks[j] # ks[k]}

Lists == {VList(its) : its \in SeqsUpTo(Elements, MaxItems)}
Dicts == UNION {{VDict(ks, its) : its \in [1..Len(ks) -> Elements]} : ks \in KeySeqs}

Values == Leaves \cup Lists \cup Dicts

NoOrchestration == action = "none" /\ address_given = FALSE
NoComputation ==
    /\ initial_data = <<>> /\ iterations = 0
    /\ hex_string = <<>>
    /\ data = VNone

InitWorkflow ==
    /\ prog = "workflow"
    /\ initial_data \in Seeds
    /\ iterations \in IterationCounts
    /\ hex_string = <<>>
    /\ data = VNone
    /\ NoOrchestration

InitBridge ==
    /\ prog = "bridge"
    /\ hex_string \in HexStrings
    /\ initial_data = <<>> /\ iterations = 0
    /\ data = VNone
    /\ NoOrchestration

InitEncoder ==
    /\ prog = "encoder"
    /\ data \in Values
    /\ initial_data = <<>> /\ iterations = 0
    /\ hex_string = <<>>
    /\ NoOrchestration

\* setup_usdc.py 161-167: --action and --address
SetupActions == {"setup", "compile", "publish", "init", "add-support", "mint",
                 "balance", "test"}

InitSetup ==
    /\ prog = "setup"
    /\ action \in SetupActions
    /\ address_given \in BOOLEAN
    /\ address_given => action = "balance"
    /\ NoComputation

InitDemo ==
    /\ prog = "demo"
    /\ action = "demo" /\ address_given = FALSE
    /\ NoComputation

Init == Idle /\ (InitWorkflow \/ InitBridge \/ InitEncoder \/ InitSetup \/ InitDemo)

Next ==
    \/ WfStart
    \/ WfLoopStep
    \/ WfPrepareParams
    \/ WfConvert
    \/ WfVerify
    \/ BridgeCall
    \/ EncSerialize
    \/ SetupRunStep
    \/ SetupComplete
    \/ SetupSingleAction
    \/ DemoRunStep
    \/ DemoComplete

Spec == Init /\ [][Next]_vars

(***************************************************************************)
(* Properties of complete_payment_workflow                                 *)
(***************************************************************************)
\* the hash of a text taken as one byte per character (its ASCII bytes)
HashOfText(text) == sha256_hexdigest([k \in 1..Len(text) |-> text[k]])

Returned == prog = "workflow" /\ pc = "done"
ChainComplete == prog = "workflow" /\ pc \in {"convert", "verify", "done"}

\* C1: for every seed and every iteration count n >= 2 the workflow returns,
\* its one-time value and tail are chain[n-2] and chain[n-1], hashing the
\* ASCII bytes of the hex text of chain[n-2] yields chain[n-1], and the
\* returned verification_ok is true.
C1_AdjacentDigestsVerify ==
    (prog = "workflow" /\ iterations >= 2) =>
        /\ pc # "raised"
        /\ Returned =>
             /\ Len(iteration_results) = iterations
             /\ opt_hex = iteration_results[iterations - 1]
             /\ tail_hex = iteration_results[iterations]
             /\ HashOfText(iteration_results[iterations - 1]) = iteration_results[iterations]
             /\ verification_ok = TRUE

C1_Witness ==
    /\ Returned /\ iterations = 3 /\ initial_data = <<97, 233>>
    /\ verification_ok = TRUE
    /\ verification_hash = tail_hex

\* C2: for every seed and iterations >= 1 the chain built by the loop has
\* exactly iterations elements, element 0 is the hash of the seed bytes and
\* every later element is the hash of the ASCII bytes of the hex text of its
\* predecessor (not of the raw bytes that hex text denotes).
C2_ChainShape ==
    (prog = "workflow" /\ iterations >= 1 /\ pc # "start") =>
        /\ Len(iteration_results) = i
        /\ i <= iterations
        /\ (pc # "loop") => i = iterations
        /\ i >= 1 => iteration_results[1] = sha256_hexdigest(encode_utf8(initial_data).bytes)
        /\ \A k \in 2..i :
             /\ iteration_results[k] = HashOfText(iteration_results[k - 1])
             /\ Len(iteration_results[k - 1]) = 2 * Len(bytes_fromhex(iteration_results[k - 1]))

C2_Witness ==
    /\ ChainComplete /\ iterations = 3
    /\ Len(iteration_results) = 3
    /\ iteration_results[3] # sha256_hexdigest(bytes_fromhex(iteration_results[2]))

\* C3: with iterations = 1 exactly one hash application builds the chain
\* (chain[0] = H(seed), no second step), the tail commitment is chain[0] and
\* the one-time value is the raw seed text, not a digest.
C3_SingleIteration ==
    (prog = "workflow" /\ iterations = 1 /\ pc \in {"convert", "verify", "done", "raised"}) =>
        /\ i = 1
        /\ iteration_results = <<sha256_hexdigest(encode_utf8(initial_data).bytes)>>
        /\ tail_hex = iteration_results[1]
        /\ opt_hex = initial_data
        /\ error # "IndexError"

C3_Witness ==
    /\ Returned /\ iterations = 1
    /\ initial_data = <<97, 48>>
    /\ opt_hex = <<97, 48>>
    /\ opt_hex # tail_hex
    /\ Len(iteration_results) = 1

\* C4: iterations = 0 is rejected with an InvalidArgument failure (a Python
\* ValueError), that is the only failure of the chain engine for an unsigned
\* iteration count, and nothing is produced for it.
C4_ZeroIterationsInvalidArgument ==
    prog = "workflow" =>
        /\ (iterations = 0 /\ pc \notin {"start", "loop"}) =>
              (pc = "raised" /\ error = "ValueError" /\ tail_hex = <<>>)
        /\ (pc = "raised" /\ iterations >= 0) => iterations = 0

\* C6: the verification step yields true iff H(ASCII bytes of the one-time
\* value) equals the tail, for every pair it reaches, and never raises.
C6_VerifyNeverRaises ==
    prog = "workflow" =>
        /\ Returned => (verification_ok = (HashOfText(opt_hex) = tail_hex))
        /\ (pc = "raised") => error_line \notin 65..68

(***************************************************************************)
(* Properties of hex_to_ascii_bytes                                        *)
(***************************************************************************)
\* number of characters removed in front: 2 for one leading "0x", else 0
PrefixLen(str) == IF Len(str) >= 2 /\ SubSeq(str, 1, 2) = <<48, 120>> THEN 2 ELSE 0

\* C5: for every input string hex_to_ascii_bytes removes at most one leading
\* "0x" and returns the code points of the remaining characters in order,
\* one per character, without validating hex digits and without failing.
C5_BridgeCodePoints ==
    /\ (prog = "bridge" /\ pc = "done") =>
         /\ error = "none"
         /\ Len(ascii_bytes) = Len(hex_string) - PrefixLen(hex_string)
         /\ \A k \in 1..Len(ascii_bytes) :
              ascii_bytes[k] = hex_string[k + PrefixLen(hex_string)]
    /\ prog = "bridge" => pc # "raised"
    /\ hex_to_ascii_bytes(<<48, 120, 97, 100, 98, 54>>) = <<97, 100, 98, 54>>

C5_Witness ==
    /\ prog = "bridge" /\ pc = "done"
    /\ hex_string = <<48, 120, 48, 120>>
    /\ ascii_bytes = <<48, 120>>

(***************************************************************************)
(* Properties of serialize_to_bcs_like                                     *)
(***************************************************************************)
Encoded == prog = "encoder" /\ pc = "done"
EncoderFinished == prog = "encoder" /\ pc \in {"done", "raised"}

IsByte(x) == x \in 0..255

\* the number a little-endian byte string denotes, for values below 2^24:
\* -1 if a higher byte is set
SmallLEValue(bs) ==
    IF \E j \in 4..Len(bs) : bs[j] # 0 THEN -1
    ELSE bs[1] + 256 * bs[2] + 65536 * bs[3]

\* C7: for every integer n with 0 <= n < 2^64 the encoding is exactly 8
\* bytes whose little-endian value is n (bytes 2k-1 and 2k hold the k-th
\* base-65536 digit of n, low byte first); encode(256) = [0,1,0,0,0,0,0,0].
C7_IntLittleEndian ==
    /\ (prog = "encoder" /\ pc # "start" /\ data.tag = "int"
          /\ ~data.neg /\ Len(data.limbs) <= 4) =>
         /\ pc = "done"
         /\ Len(bcs_bytes) = 8
         /\ \A j \in 1..8 : IsByte(bcs_bytes[j])
         /\ \A k \in 1..4 :
              bcs_bytes[2 * k - 1] + 256 * bcs_bytes[2 * k] = Limb(data.limbs, k)
    /\ serialize_to_bcs_like(VInt(FALSE, <<256>>)) = Ok(<<0, 1, 0, 0, 0, 0, 0, 0>>)

C7_Witness ==
    /\ Encoded
    /\ data = VInt(FALSE, <<256, 0, 1>>)
    /\ bcs_bytes = <<0, 1, 0, 0, 1, 0, 0, 0>>

RECURSIVE ContainsNegative(_)
ContainsNegative(v) ==
    \/ v.tag = "int" /\ v.neg
    \/ \E k \in 1..Len(v.items) : ContainsNegative(v.items[k])

\* every part of v is one of the six encodable variants, the ints possibly
\* negative (but below 2^64 in magnitude), the texts without lone surrogates
RECURSIVE EncodableButForSign(_)
EncodableButForSign(v) ==
    CASE v.tag = "bool" -> TRUE
      [] v.tag = "int" -> Len(v.limbs) <= 4
      [] v.tag = "str" -> \A k \in 1..Len(v.s) : ~IsSurrogate(v.s[k])
      [] v.tag = "bytes" -> TRUE
      [] v.tag \in {"list", "dict"} ->
           \A k \in 1..Len(v.items) : EncodableButForSign(v.items[k])
      [] OTHER -> FALSE

Before(v, k) == {j \in 1..Len(v.keys) : StrLess(v.keys[j], v.keys[k])}

RECURSIVE SumLen(_, _)
SumLen(v, js) ==
    IF js = {} THEN 0
    ELSE LET j == CHOOSE x \in js : TRUE
         IN Len(serialize_to_bcs_like(v.items[j]).bytes) + SumLen(v, js \ {j})

\* the same mapping with its entries inserted in the order p
Reinserted(v, p) ==
    VDict([k \in 1..Len(v.keys) |-> v.keys[p[k]]], [k \in 1..Len(v.keys) |-> v.items[p[k]]])

\* C9: the encoding of a mapping is the values' encodings alone, laid out in
\* ascending order of the keys (the encoding of a value starts right after
\* the encodings of the values of all smaller keys; no keys, no count), and
\* every insertion order of the same entries gives the same outcome.
C9_MappingKeyOrder ==
    /\ (EncoderFinished /\ data.tag = "dict") =>
         /\ (\A k \in 1..Len(data.items) : serialize_to_bcs_like(data.items[k]).err = "none") =>
              /\ pc = "done"
              /\ Len(bcs_bytes) = SumLen(data, 1..Len(data.items))
              /\ \A k \in 1..Len(data.items) :
                   LET off == SumLen(data, Before(data, k))
                       enc == serialize_to_bcs_like(data.items[k]).bytes
                   IN SubSeq(bcs_bytes, off + 1, off + Len(enc)) = enc
         /\ \A p \in Permutations(1..Len(data.keys)) :
              serialize_to_bcs_like(Reinserted(data, p)) =
                  [err |-> error, bytes |-> bcs_bytes]
    /\ serialize_to_bcs_like(VDict(<<<<97>>, <<98>>>>, <<VInt(FALSE, <<1>>), VInt(FALSE, <<2>>)>>))
         = serialize_to_bcs_like(VDict(<<<<98>>, <<97>>>>, <<VInt(FALSE, <<2>>), VInt(FALSE, <<1>>)>>))

C9_Witness ==
    /\ Encoded
    /\ data = VDict(<<<<98>>, <<97>>>>, <<VInt(FALSE, <<1>>), VInt(FALSE, <<256>>)>>)
    /\ bcs_bytes = <<0, 1, 0, 0, 0, 0, 0, 0, 1, 0, 0, 0, 0, 0, 0, 0>>

\* length of the UTF-8 encoding of a text
RECURSIVE Utf8Len(_)
Utf8Len(str) ==
    IF str = <<>> THEN 0
    ELSE (IF Head(str) < 128 THEN 1 ELSE IF Head(str) < 2048 THEN 2 ELSE 3)
         + Utf8Len(Tail(str))

IsText(v) == v.tag = "str" /\ \A k \in 1..Len(v.s) : ~IsSurrogate(v.s[k])

\* C10: a Text (a str that has a UTF-8 encoding) and a ByteSequence encode to
\* an 8-byte little-endian length prefix followed by the payload; the prefix
\* is the byte length of the payload (for a Text the length of its UTF-8
\* encoding, not its character count) and the total length is 8 + payload.
C10_LengthPrefixed ==
    /\ (EncoderFinished /\ IsText(data)) =>
         /\ pc = "done"
         /\ Len(bcs_bytes) = 8 + Utf8Len(data.s)
         /\ SmallLEValue(SubSeq(bcs_bytes, 1, 8)) = Utf8Len(data.s)
         /\ SubSeq(bcs_bytes, 9, Len(bcs_bytes)) = encode_utf8(data.s).bytes
         /\ \A j \in 1..Len(bcs_bytes) : IsByte(bcs_bytes[j])
    /\ (EncoderFinished /\ data.tag = "bytes") =>
         /\ pc = "done"
         /\ Len(bcs_bytes) = 8 + Len(data.s)
         /\ SmallLEValue(SubSeq(bcs_bytes, 1, 8)) = Len(data.s)
         /\ SubSeq(bcs_bytes, 9, Len(bcs_bytes)) = data.s

C10_Witness ==
    /\ Encoded
    /\ data = VStr(<<233, 8364>>)
    /\ bcs_bytes = <<5, 0, 0, 0, 0, 0, 0, 0, 195, 169, 226, 130, 172>>

\* total length of the encodings of the first n elements of a list
RECURSIVE PrefixLenSum(_, _)
PrefixLenSum(its, n) ==
    IF n = 0 THEN 0
    ELSE PrefixLenSum(its, n - 1) + Len(serialize_to_bcs_like(its[n]).bytes)

AllEncode(its) == \A k \in 1..Len(its) : serialize_to_bcs_like(its[k]).err = "none"

EncodingsOf(its) == Flatten([k \in 1..Len(its) |-> serialize_to_bcs_like(its[k]).bytes])

Permuted(its, p) == [k \in 1..Len(its) |-> its[p[k]]]

\* the layout of a sequence: the 8-byte little-endian element count, then
\* the encoding of element k right after those of elements 1..k-1
ListLayout ==
    (EncoderFinished /\ data.tag = "list" /\ AllEncode(data.items)) =>
        /\ pc = "done"
        /\ Len(bcs_bytes) = 8 + PrefixLenSum(data.items, Len(data.items))
        /\ SmallLEValue(SubSeq(bcs_bytes, 1, 8)) = Len(data.items)
        /\ \A k \in 1..Len(data.items) :
             LET off == 8 + PrefixLenSum(data.items, k - 1)
                 enc == serialize_to_bcs_like(data.items[k]).bytes
             IN SubSeq(bcs_bytes, off + 1, off + Len(enc)) = enc

Bit(b) == IF b THEN 1 ELSE 0

\* C12: a Boolean encodes to exactly one byte, 1 for true and 0 for false,
\* never to the 8 bytes of the integer rule: at top level the output is that
\* byte, and in a sequence or mapping a Boolean element takes exactly one
\* byte of the output, holding that value.
C12_BoolOneByte ==
    /\ (EncoderFinished /\ data.tag = "bool") =>
         (pc = "done" /\ bcs_bytes = <<Bit(data.b)>>)
    /\ (EncoderFinished /\ data.tag = "list" /\ AllEncode(data.items)) =>
         \A k \in 1..Len(data.items) : data.items[k].tag = "bool" =>
           /\ PrefixLenSum(data.items, k) = PrefixLenSum(data.items, k - 1) + 1
           /\ bcs_bytes[8 + PrefixLenSum(data.items, k)] = Bit(data.items[k].b)
    /\ (EncoderFinished /\ data.tag = "dict" /\ AllEncode(data.items)) =>
         \A k \in 1..Len(data.items) : data.items[k].tag = "bool" =>
           /\ SumLen(data, Before(data, k) \cup {k}) = SumLen(data, Before(data, k)) + 1
           /\ bcs_bytes[SumLen(data, Before(data, k)) + 1] = Bit(data.items[k].b)

C12_Witness ==
    /\ Encoded
    /\ data = VList(<<VBool(TRUE), VBool(FALSE)>>)
    /\ bcs_bytes = <<2, 0, 0, 0, 0, 0, 0, 0, 1, 0>>

SixVariants == {"bool", "int", "str", "bytes", "list", "dict"}

RECURSIVE ContainsUnsupported(_)
ContainsUnsupported(v) ==
    \/ v.tag \notin SixVariants
    \/ \E k \in 1..Len(v.items) : ContainsUnsupported(v.items[k])

\* built only from the six variants: Boolean, integer in 0..2^64-1, Text
\* (a str with a UTF-8 encoding), ByteSequence, sequences and mappings of these
WellTyped(v) == EncodableButForSign(v) /\ ~ContainsNegative(v)

\* every part of v is either well typed or of a variant outside the six
RECURSIVE UnsupportedIsOnlyDefect(_)
UnsupportedIsOnlyDefect(v) ==
    CASE v.tag \in {"list", "dict"} ->
           \A k \in 1..Len(v.items) : UnsupportedIsOnlyDefect(v.items[k])
      [] v.tag \in SixVariants -> WellTyped(v)
      [] OTHER -> TRUE

\* C13 as stated: the encoder succeeds on every well-typed value and fails
\* with the unsupported-type error exactly when the value or a nested element
\* is of a variant outside the six.
C13_UnsupportedExactly ==
    EncoderFinished =>
        /\ WellTyped(data) => pc = "done"
        /\ (error = UnsupportedMsg) <=> ContainsUnsupported(data)

\* C13 amended: the encoder succeeds on every well-typed value; every value
\* holding an element of a variant outside the six fails and yields no bytes;
\* the unsupported-type error is raised only for such values, and always when
\* that is their only defect (a negative integer, an integer from 2^64 on or
\* an unencodable text met earlier raises its own error instead).
C13_TotalAndUnsupported ==
    EncoderFinished =>
        /\ WellTyped(data) => (pc = "done" /\ error = "none")
        /\ (error = UnsupportedMsg) => (ContainsUnsupported(data) /\ error_line = 50)
        /\ ContainsUnsupported(data) => (pc = "raised" /\ bcs_bytes = <<>>)
        /\ (ContainsUnsupported(data) /\ UnsupportedIsOnlyDefect(data)) =>
             error = UnsupportedMsg

C13_Witness ==
    /\ prog = "encoder" /\ pc = "raised"
    /\ data = VDict(<<<<98>>, <<97>>>>, <<VNone, VBool(TRUE)>>)
    /\ error = UnsupportedMsg
    /\ bcs_bytes = <<>>

(***************************************************************************)
(* Properties of the contract parameters                                   *)
(***************************************************************************)
\* the pieces of a text between commas
RECURSIVE SplitComma(_, _)
SplitComma(str, cur) ==
    IF str = <<>> THEN <<cur>>
    ELSE IF Head(str) = 44 THEN <<cur>> \o SplitComma(Tail(str), <<>>)
    ELSE SplitComma(Tail(str), Append(cur, Head(str)))

IsDecimal(str) == str # <<>> /\ \A k \in 1..Len(str) : str[k] \in 48..57

RECURSIVE DecimalValue(_)
DecimalValue(str) ==
    IF str = <<>> THEN 0
    ELSE 10 * DecimalValue(SubSeq(str, 1, Len(str) - 1)) + (str[Len(str)] - 48)

\* fmt is u8:[b1,...,bn] with every bi the decimal text of bs[i], in 0..255
RendersBytes(fmt, bs) ==
    /\ Len(fmt) >= 5
    /\ SubSeq(fmt, 1, 4) = <<117, 56, 58, 91>>
    /\ fmt[Len(fmt)] = 93
    /\ LET inner == SubSeq(fmt, 5, Len(fmt) - 1)
           parts == IF inner = <<>> THEN <<>> ELSE SplitComma(inner, <<>>)
       IN /\ Len(parts) = Len(bs)
          /\ \A k \in 1..Len(parts) :
               /\ IsDecimal(parts[k])
               /\ DecimalValue(parts[k]) = bs[k]
               /\ DecimalValue(parts[k]) \in 0..255

\* C14: in every result the workflow returns, every element of
\* opt_ascii_bytes and of tail_ascii_bytes is in 0..255, and the two
\* u8:[b0,...,bn] parameter strings list exactly these values in decimal.
C14_ParameterBytesInRange ==
    Returned =>
        /\ \A k \in 1..Len(opt_ascii_bytes) : opt_ascii_bytes[k] \in 0..255
        /\ \A k \in 1..Len(tail_ascii_bytes) : tail_ascii_bytes[k] \in 0..255
        /\ RendersBytes(aptos_opt_format, opt_ascii_bytes)
        /\ RendersBytes(aptos_tail_format, tail_ascii_bytes)

C14_Witness ==
    /\ Returned /\ iterations = 1
    /\ initial_data = <<97, 48>>
    /\ opt_ascii_bytes = <<97, 48>>
    /\ aptos_opt_format = <<117, 56, 58, 91, 57, 55, 44, 52, 56, 93>>

\* C15: in every returned result with verification_ok true, the bytes handed
\* to the contract as opt are the bytes the verification hashed: the hash of
\* opt_ascii_bytes has hex text tail_hex.
C15_ContractBytesAreVerifiedBytes ==
    (Returned /\ verification_ok) =>
        sha256_hexdigest(opt_ascii_bytes) = tail_hex

(***************************************************************************)
(* Properties of the orchestration scripts                                 *)
(***************************************************************************)
Exited == prog \in {"setup", "demo"} /\ pc = "exited"

\* C16: in both orchestration scripts, if any external command invoked by a
\* step failed, the process ends with a non-zero exit status.
C16_FailureGivesNonZeroExit ==
    (Exited /\ cmd_failed) => exit_status # 0

\* setup_usdc.py alone does turn every failed command into exit status 1,
\* and exits 0 after a run in which every command succeeded
SetupExitReflectsFailure ==
    (prog = "setup" /\ pc = "exited") => (exit_status = IF cmd_failed THEN 1 ELSE 0)

====
